---- MODULE Spec2Model ----
(***************************************************************************)
(* Model of src/tts/tts_salute.py: the class-level token cache of Token    *)
(* (get_authdata, get_token, __request_for_new_token__), speak() and the   *)
(* form (Interface).                                                       *)
(*                                                                         *)
(* Each thread of control walks the statements of the code one step at a   *)
(* time (pc).  The two HTTP endpoints, the clock, the process environment  *)
(* and the audio device are the environment of the program: their answers  *)
(* are drawn from small sets.                                              *)
(*                                                                         *)
(* Spec        one caller of Token.get_token() and speak()                 *)
(* SpecForm    the program as run: Interface.onSpeak is the only caller    *)
(* SpecOverlap two callers of Token.get_token() whose calls interleave     *)
(*                                                                         *)
(* Voice names are Cyrillic in the source; they are transliterated here    *)
(* (Natalya = "Наталья", Aleksandra = "Александра", Boris = "Борис",       *)
(* Marfa = "Марфа", Taras = "Тарас", Sergey = "Сергей").                   *)
(***************************************************************************)
EXTENDS Naturals, Integers, Sequences, FiniteSets, TLC

\* ------------------------------------------------------------------ bounds
MaxTime  == 7000        \* the clock runs from 0 to MaxTime (ms)
TickMs   == 1000        \* the clock advances in steps of TickMs
MaxCalls == 3           \* top-level invocations in one process lifetime

\* ------------------------------------------------------- program constants
Margin   == 2000        \* get_token: ... < int(time.time() * 1000) - 2000
HTTP_OK  == 200         \* response.status_code == 200

\* Python's None and an optional value: None is <<>>, a value v is <<v>>.
None      == <<>>
Some(v)   == <<v>>
Val(o)    == o[1]

\* str(x) as an f-string formats it: None is rendered as the text "None".
Format(o) == IF o = None THEN "None" ELSE Val(o)

\* ------------------------------------------------------ environment inputs
Threads    == {1, 2}
ApiKeys    == {"a2V5"}                    \* values SALUTESPEECH_API_KEY may hold
EnvValues  == {None} \cup {Some(k) : k \in ApiKeys}
TokenVals  == {"t1", "t2"}                \* access_token strings of the endpoint
TTLs       == {3000, 4000}                \* expires_at - now of a fresh token
Statuses   == {200, 401, 500}             \* HTTP statuses an endpoint answers
BadVoices  == {"Ivan", ""}                \* names outside the fixed set

\* speak: valid_voices (lines 113-120)
valid_voices_swapped ==
    [v \in {"Natalya", "Aleksandra", "Boris", "Marfa", "Taras", "Sergey"} |->
        CASE v = "Natalya"    -> "Nec"
          [] v = "Aleksandra" -> "Ost"
          [] v = "Boris"      -> "Bys"
          [] v = "Marfa"      -> "Tur"
          [] v = "Taras"      -> "May"
          [] v = "Sergey"     -> "Pon"]

valid_voices ==
    [v \in {"Natalya", "Aleksandra", "Boris", "Marfa", "Taras", "Sergey"} |->
        CASE v = "Natalya"    -> "Nec"
          [] v = "Aleksandra" -> "Ost"
          [] v = "Boris"      -> "Bys"
          [] v = "Marfa"      -> "May"
          [] v = "Taras"      -> "Tur"
          [] v = "Sergey"     -> "Pon"]

VoiceInputs == DOMAIN valid_voices \cup BadVoices

\* speak: the synthesis URL's query (line 127)
SynthQuery(voice) == "voice=" \o valid_voices[voice] \o "_24000"

\* get_token: the condition of the if (lines 50-53)
NeedsRefreshFlipped(tok, exp, t) ==
    tok = None \/ (exp # None /\ Val(exp) > t - Margin)

NeedsRefresh(tok, exp, t) ==
    tok = None \/ (exp # None /\ Val(exp) < t - Margin)

\* ------------------------------------------------------------ audio bodies
\* The audio the endpoint sends: 16-bit samples and their frame rate.
Audios == {[samples |-> <<-32768, 258, 32767>>, samplerate |-> 24000],
           [samples |-> <<1, -2>>, samplerate |-> 16000]}

\* A 16-bit sample as the two bytes of its little-endian two's complement.
BytesLE(x)  == LET u == IF x < 0 THEN x + 65536 ELSE x IN <<u % 256, u \div 256>>

RECURSIVE PackLE(_)
PackLE(samples) ==
    IF samples = <<>> THEN <<>>
    ELSE BytesLE(Head(samples)) \o PackLE(Tail(samples))

\* The body of a synthesis response: a mono 16-bit PCM WAV container of the
\* samples, or a body wave.open rejects.
WavBody(samples, rate) ==
    [riff |-> TRUE, nchannels |-> 1, sampwidth |-> 2, framerate |-> rate,
     data |-> PackLE(samples)]
NotWav  == [riff |-> FALSE, nchannels |-> 0, sampwidth |-> 0, framerate |-> 0,
            data |-> <<>>]
Bodies  == {NotWav} \cup {WavBody(a.samples, a.samplerate) : a \in Audios}

\* speak: wav_file.getnframes(), wav_file.readframes(n) (line 139)
getnframes(w)   == Len(w.data) \div (w.nchannels * w.sampwidth)
readframes(w, n) == SubSeq(w.data, 1, n * w.nchannels * w.sampwidth)

\* speak: np.frombuffer(audio_data, dtype=np.int16) (line 140)
frombuffer_uint16(bytes) ==
    [i \in 1..(Len(bytes) \div 2) |-> bytes[2 * i - 1] + 256 * bytes[2 * i]]

frombuffer(bytes) ==
    [i \in 1..(Len(bytes) \div 2) |->
        LET u == bytes[2 * i - 1] + 256 * bytes[2 * i]
        IN  IF u >= 32768 THEN u - 65536 ELSE u]

\* ------------------------------------------------------------------- state
VARIABLES
    env,          \* os.environ.get("SALUTESPEECH_API_KEY"): None when absent
    now,          \* int(time.time() * 1000)
    _authdata,    \* Token._authdata
    _token,       \* Token._token
    _expires_in,  \* Token._expires_in
    threads,      \* the threads of control that run calls
    pc,           \* per thread: the statement it is at
    op,           \* per thread: the top-level call ("get_token" / "speak")
    voice,        \* per thread: speak's voice argument
    entry,        \* per thread: the cache and the clock as get_token's check read them
    fetched,      \* per thread: the pair __request_for_new_token__ returned
    ret,          \* per thread: the value get_token returned
    exc,          \* per thread: the exception the call raised
    sent,         \* per thread: the requests of this call (headers, url, counts)
    recv,         \* per thread: the status codes of the responses of this call
    played,       \* per thread: sd.play calls of this call and those that completed
    calls,        \* top-level invocations so far
    envReads,     \* reads of the environment variable so far
    delivered,    \* the (access_token, expires_at) pairs the token endpoint has delivered
    combo_index,  \* Interface.combo_box.currentIndex()
    handler,      \* per thread: where Interface.onSpeak is, "none" outside it
    notice,       \* the text of the QMessageBox.critical that is open
    touched,      \* the user has changed the dropdown since initUI
    last_return   \* the value and the time of the latest return of get_token

cache  == <<_authdata, _token, _expires_in>>
locals == <<pc, op, voice, entry, fetched, ret, exc, sent, recv, played>>
vars   == <<env, now, _authdata, _token, _expires_in, threads, pc, op, voice,
            entry, fetched, ret, exc, sent, recv, played, calls, envReads,
            delivered,
            combo_index,
            handler,
            notice,
            touched,
            last_return>>

NoEntry == [token |-> None, expires |-> None, time |-> 0, refresh |-> FALSE]
NoSent  == [auth |-> None, tokenPosts |-> 0, url |-> None, bearer |-> None,
            synthPosts |-> 0]
NoRecv  == [token |-> None, synth |-> None, body |-> None]
NoPlay  == [calls |-> 0, completed |-> 0, audio |-> None]

Exception(type, msg) == Some([type |-> type, msg |-> msg])

Init ==
    /\ env \in EnvValues
    /\ now = 0
    /\ _authdata = None
    /\ _token = None
    /\ _expires_in = None
    /\ threads = {1}
    /\ pc = [p \in Threads |-> "idle"]
    /\ op = [p \in Threads |-> "none"]
    /\ voice = [p \in Threads |-> ""]
    /\ entry = [p \in Threads |-> NoEntry]
    /\ fetched = [p \in Threads |-> None]
    /\ ret = [p \in Threads |-> None]
    /\ exc = [p \in Threads |-> None]
    /\ sent = [p \in Threads |-> NoSent]
    /\ recv = [p \in Threads |-> NoRecv]
    /\ played = [p \in Threads |-> NoPlay]
    /\ calls = 0
    /\ envReads = 0
    /\ delivered = {}
    /\ combo_index = 0
    /\ handler = [p \in Threads |-> "none"]
    /\ notice = None
    /\ touched = FALSE
    /\ last_return = [value |-> None, time |-> 0]

\* time.time() moves on between any two statements.
Tick ==
    /\ now + TickMs <= MaxTime
    /\ now' = now + TickMs
    /\ UNCHANGED <<env, cache, threads, locals, calls, envReads, delivered,
                   combo_index, handler, notice, touched, last_return>>

\* A fresh top-level call: the locals of the previous call are gone.
Enter(p, o, v, at) ==
    /\ p \in threads
    /\ pc[p] \in {"idle", "done"}
    /\ handler[p] \in {"none", "returned"}
    /\ calls < MaxCalls
    /\ calls' = calls + 1
    /\ pc' = [pc EXCEPT ![p] = at]
    /\ op' = [op EXCEPT ![p] = o]
    /\ voice' = [voice EXCEPT ![p] = v]
    /\ entry' = [entry EXCEPT ![p] = NoEntry]
    /\ fetched' = [fetched EXCEPT ![p] = None]
    /\ ret' = [ret EXCEPT ![p] = None]
    /\ exc' = [exc EXCEPT ![p] = None]
    /\ sent' = [sent EXCEPT ![p] = NoSent]
    /\ recv' = [recv EXCEPT ![p] = NoRecv]
    /\ played' = [played EXCEPT ![p] = NoPlay]
    /\ UNCHANGED <<env, now, cache, threads, envReads, delivered, combo_index,
                   notice, touched, last_return>>

\* A caller invokes Token.get_token() (line 40).
CallGetToken(p) ==
    /\ Enter(p, "get_token", "", "gt_check")
    /\ handler' = [handler EXCEPT ![p] = "none"]

\* A caller invokes speak(text, voice) (line 89).
CallSpeak(p) ==
    /\ \E v \in VoiceInputs : Enter(p, "speak", v, "sp_validate")
    /\ handler' = [handler EXCEPT ![p] = "none"]

\* The call ends by raising e.
Raise(p, e) ==
    /\ pc' = [pc EXCEPT ![p] = "done"]
    /\ exc' = [exc EXCEPT ![p] = e]

Goto(p, at) == pc' = [pc EXCEPT ![p] = at]

SpeakValidateLate(p) ==
    /\ pc[p] = "sp_validate"
    /\ IF voice[p] \notin DOMAIN valid_voices
         THEN /\ sent' = [sent EXCEPT ![p].tokenPosts = @ + 1]
              /\ Raise(p, Exception("ValueError",
                  "Invalid value for parameter 'voice': " \o voice[p]
                  \o ". Valid values: Natalya, Aleksandra, Boris, Marfa, Taras, Sergey"))
         ELSE Goto(p, "gt_check") /\ UNCHANGED <<exc, sent>>
    /\ UNCHANGED <<env, now, cache, threads, op, voice, entry, fetched, ret,
                   recv, played, calls, envReads, delivered, combo_index,
                   handler, notice, touched, last_return>>

\* speak: if voice not in valid_voices.keys(): raise ValueError(...) (lines 121-124)
SpeakValidate(p) ==
    /\ pc[p] = "sp_validate"
    /\ IF voice[p] \notin DOMAIN valid_voices
         THEN Raise(p, Exception("ValueError",
                  "Invalid value for parameter 'voice': " \o voice[p]
                  \o ". Valid values: Natalya, Aleksandra, Boris, Marfa, Taras, Sergey"))
         ELSE Goto(p, "gt_check") /\ UNCHANGED exc
    /\ UNCHANGED <<env, now, cache, threads, op, voice, entry, fetched, ret,
                   sent, recv, played, calls, envReads, delivered,
                   combo_index, handler, notice, touched, last_return>>

\* get_token: the if reads the cache and the clock (lines 50-53)
GetTokenCheck(p) ==
    /\ pc[p] = "gt_check"
    /\ LET refresh == NeedsRefresh(_token, _expires_in, now) IN
         /\ entry' = [entry EXCEPT ![p] = [token |-> _token, expires |-> _expires_in,
                                           time |-> now, refresh |-> refresh]]
         /\ Goto(p, IF refresh THEN "rq_authdata" ELSE "gt_return")
    /\ UNCHANGED <<env, now, cache, threads, op, voice, fetched, ret, exc,
                   sent, recv, played, calls, envReads, delivered,
                   combo_index, handler, notice, touched, last_return>>

\* __request_for_new_token__ builds the headers, calling get_authdata
\* (lines 70-76 and 35-37)
GetAuthdata(p) ==
    /\ pc[p] = "rq_authdata"
    /\ IF _authdata = None
         THEN _authdata' = env /\ envReads' = envReads + 1
         ELSE UNCHANGED <<_authdata, envReads>>
    /\ sent' = [sent EXCEPT ![p].auth = Some("Basic " \o Format(_authdata'))]
    /\ Goto(p, "rq_post")
    /\ UNCHANGED <<env, now, _token, _expires_in, threads, op, voice, entry,
                   fetched, ret, exc, recv, played, calls, delivered,
                   combo_index, handler, notice, touched, last_return>>

\* __request_for_new_token__: requests.post(url, ...) is sent (line 78)
TokenPost(p) ==
    /\ pc[p] = "rq_post"
    /\ sent' = [sent EXCEPT ![p].tokenPosts = @ + 1]
    /\ Goto(p, "rq_wait")
    /\ UNCHANGED <<env, now, cache, threads, op, voice, entry, fetched, ret,
                   exc, recv, played, calls, envReads, delivered,
                   combo_index, handler, notice, touched, last_return>>

\* The token endpoint accepts only a request that carries a key.
Accepts(auth) == auth # Some("Basic None")

TokenResponseClearsCache(p) ==
    /\ pc[p] = "rq_wait"
    /\ \E status \in Statuses, tok \in TokenVals, ttl \in TTLs :
         /\ status = HTTP_OK => Accepts(sent[p].auth)
         /\ recv' = [recv EXCEPT ![p].token = Some(status)]
         /\ IF status = HTTP_OK
              THEN /\ fetched' = [fetched EXCEPT ![p] =
                          Some([access_token |-> tok, expires_at |-> now + ttl])]
                   /\ delivered' = delivered \cup
                          {[access_token |-> tok, expires_at |-> now + ttl]}
                   /\ Goto(p, "gt_store_token")
                   /\ UNCHANGED <<exc, _token, _expires_in>>
              ELSE /\ Raise(p, Exception("Exception", "Failed to obtain token"))
                   /\ _token' = None
                   /\ _expires_in' = None
                   /\ UNCHANGED <<fetched, delivered>>
    /\ UNCHANGED <<env, now, _authdata, threads, op, voice, entry, ret, sent,
                   played, calls, envReads, combo_index, handler, notice,
                   touched, last_return>>

TokenResponseWithStatus(p) ==
    /\ pc[p] = "rq_wait"
    /\ \E status \in Statuses, tok \in TokenVals, ttl \in TTLs :
         /\ status = HTTP_OK => Accepts(sent[p].auth)
         /\ recv' = [recv EXCEPT ![p].token = Some(status)]
         /\ IF status = HTTP_OK
              THEN /\ fetched' = [fetched EXCEPT ![p] =
                          Some([access_token |-> tok, expires_at |-> now + ttl])]
                   /\ delivered' = delivered \cup
                          {[access_token |-> tok, expires_at |-> now + ttl]}
                   /\ Goto(p, "gt_store_token")
                   /\ UNCHANGED exc
              ELSE /\ Raise(p, Exception("Exception",
                            "Failed to obtain token: " \o ToString(status)))
                   /\ UNCHANGED <<fetched, delivered>>
    /\ UNCHANGED <<env, now, cache, threads, op, voice, entry, ret, sent,
                   played, calls, envReads, combo_index, handler, notice,
                   touched, last_return>>

\* __request_for_new_token__: the response arrives (lines 80-85)
TokenResponse(p) ==
    /\ pc[p] = "rq_wait"
    /\ \E status \in Statuses, tok \in TokenVals, ttl \in TTLs :
         /\ status = HTTP_OK => Accepts(sent[p].auth)
         /\ recv' = [recv EXCEPT ![p].token = Some(status)]
         /\ IF status = HTTP_OK
              THEN /\ fetched' = [fetched EXCEPT ![p] =
                          Some([access_token |-> tok, expires_at |-> now + ttl])]
                   /\ delivered' = delivered \cup
                          {[access_token |-> tok, expires_at |-> now + ttl]}
                   /\ Goto(p, "gt_store_token")
                   /\ UNCHANGED exc
              ELSE /\ Raise(p, Exception("Exception", "Failed to obtain token"))
                   /\ UNCHANGED <<fetched, delivered>>
    /\ UNCHANGED <<env, now, cache, threads, op, voice, entry, ret, sent,
                   played, calls, envReads, combo_index, handler, notice,
                   touched, last_return>>

\* requests.post raises: connection refused, timeout, TLS failure (line 78)
TokenTransportFailure(p) ==
    /\ pc[p] = "rq_wait"
    /\ Raise(p, Exception("ConnectionError", "token endpoint unreachable"))
    /\ UNCHANGED <<env, now, cache, threads, op, voice, entry, fetched, ret,
                   sent, recv, played, calls, envReads, delivered,
                   combo_index, handler, notice, touched, last_return>>

\* get_token: cls._token, cls._expires_in = ...  stores _token first (line 54)
StoreToken(p) ==
    /\ pc[p] = "gt_store_token"
    /\ _token' = Some(Val(fetched[p]).access_token)
    /\ Goto(p, "gt_store_expires")
    /\ UNCHANGED <<env, now, _authdata, _expires_in, threads, op, voice, entry,
                   fetched, ret, exc, sent, recv, played, calls, envReads,
                   delivered, combo_index, handler, notice, touched,
                   last_return>>

\* get_token: ... and then _expires_in (line 54)
StoreExpires(p) ==
    /\ pc[p] = "gt_store_expires"
    /\ _expires_in' = Some(Val(fetched[p]).expires_at)
    /\ Goto(p, "gt_return")
    /\ UNCHANGED <<env, now, _authdata, _token, threads, op, voice, entry,
                   fetched, ret, exc, sent, recv, played, calls, envReads,
                   delivered, combo_index, handler, notice, touched,
                   last_return>>

\* get_token: return cls._token (line 55); speak goes on at line 127
GetTokenReturn(p) ==
    /\ pc[p] = "gt_return"
    /\ ret' = [ret EXCEPT ![p] = _token]
    /\ last_return' = [value |-> _token, time |-> now]
    /\ Goto(p, IF op[p] = "speak" THEN "sp_post" ELSE "done")
    /\ UNCHANGED <<env, now, cache, threads, op, voice, entry, fetched, exc,
                   sent, recv, played, calls, envReads, delivered,
                   combo_index, handler, notice, touched>>

SynthPostTokenOfCheck(p) ==
    /\ pc[p] = "sp_post"
    /\ sent' = [sent EXCEPT
                  ![p].url = Some("https://smartspeech.sber.ru/rest/v1/text:synthesize?"
                                  \o SynthQuery(voice[p])),
                  ![p].bearer = Some("Bearer " \o Format(entry[p].token)),
                  ![p].synthPosts = @ + 1]
    /\ Goto(p, "sp_wait")
    /\ UNCHANGED <<env, now, cache, threads, op, voice, entry, fetched, ret,
                   exc, recv, played, calls, envReads, delivered,
                   combo_index, handler, notice, touched, last_return>>

\* speak: url, headers and requests.post (lines 127-133)
SynthPost(p) ==
    /\ pc[p] = "sp_post"
    /\ sent' = [sent EXCEPT
                  ![p].url = Some("https://smartspeech.sber.ru/rest/v1/text:synthesize?"
                                  \o SynthQuery(voice[p])),
                  ![p].bearer = Some("Bearer " \o Format(ret[p])),
                  ![p].synthPosts = @ + 1]
    /\ Goto(p, "sp_wait")
    /\ UNCHANGED <<env, now, cache, threads, op, voice, entry, fetched, ret,
                   exc, recv, played, calls, envReads, delivered,
                   combo_index, handler, notice, touched, last_return>>

SynthResponsePlaysAnyStatus(p) ==
    /\ pc[p] = "sp_wait"
    /\ \E status \in Statuses, body \in Bodies :
         /\ status # HTTP_OK => body = NotWav
         /\ recv' = [recv EXCEPT ![p].synth = Some(status), ![p].body = Some(body)]
         /\ IF body.riff \/ status # HTTP_OK
              THEN Goto(p, "sp_play") /\ UNCHANGED exc
              ELSE Raise(p, Exception("wave.Error", "file does not start with RIFF id"))
    /\ UNCHANGED <<env, now, cache, threads, op, voice, entry, fetched, ret,
                   sent, played, calls, envReads, delivered, combo_index,
                   handler, notice, touched, last_return>>

SynthResponseRetries(p) ==
    /\ pc[p] = "sp_wait"
    /\ \E status \in Statuses, body \in Bodies :
         /\ status # HTTP_OK => body = NotWav
         /\ recv' = [recv EXCEPT ![p].synth = Some(status), ![p].body = Some(body)]
         /\ IF status = HTTP_OK
              THEN IF body.riff
                     THEN Goto(p, "sp_play") /\ UNCHANGED exc
                     ELSE Raise(p, Exception("wave.Error", "file does not start with RIFF id"))
              ELSE IF sent[p].synthPosts < 2
                     THEN Goto(p, "sp_post") /\ UNCHANGED exc
                     ELSE Raise(p, Exception("Exception", "Failed to synthesize speech"))
    /\ UNCHANGED <<env, now, cache, threads, op, voice, entry, fetched, ret,
                   sent, played, calls, envReads, delivered, combo_index,
                   handler, notice, touched, last_return>>

SynthResponseDropsToken(p) ==
    /\ pc[p] = "sp_wait"
    /\ \E status \in Statuses, body \in Bodies :
         /\ status # HTTP_OK => body = NotWav
         /\ recv' = [recv EXCEPT ![p].synth = Some(status), ![p].body = Some(body)]
         /\ IF status = HTTP_OK
              THEN IF body.riff
                     THEN Goto(p, "sp_play") /\ UNCHANGED exc
                     ELSE Raise(p, Exception("wave.Error", "file does not start with RIFF id"))
              ELSE Raise(p, Exception("Exception", "Failed to synthesize speech"))
         /\ IF status = 401
              THEN _token' = None /\ _expires_in' = None
              ELSE UNCHANGED <<_token, _expires_in>>
    /\ UNCHANGED <<env, now, _authdata, threads, op, voice, entry, fetched, ret,
                   sent, played, calls, envReads, delivered, combo_index,
                   handler, notice, touched, last_return>>

\* speak: the response arrives (lines 136-143); wave.open rejects a body
\* that is not a WAV container
SynthResponse(p) ==
    /\ pc[p] = "sp_wait"
    /\ \E status \in Statuses, body \in Bodies :
         /\ status # HTTP_OK => body = NotWav
         /\ recv' = [recv EXCEPT ![p].synth = Some(status), ![p].body = Some(body)]
         /\ IF status = HTTP_OK
              THEN IF body.riff
                     THEN Goto(p, "sp_play") /\ UNCHANGED exc
                     ELSE Raise(p, Exception("wave.Error", "file does not start with RIFF id"))
              ELSE Raise(p, Exception("Exception", "Failed to synthesize speech"))
    /\ UNCHANGED <<env, now, cache, threads, op, voice, entry, fetched, ret,
                   sent, played, calls, envReads, delivered, combo_index,
                   handler, notice, touched, last_return>>

\* requests.post raises (line 133)
SynthTransportFailure(p) ==
    /\ pc[p] = "sp_wait"
    /\ Raise(p, Exception("ConnectionError", "synthesis endpoint unreachable"))
    /\ UNCHANGED <<env, now, cache, threads, op, voice, entry, fetched, ret,
                   sent, recv, played, calls, envReads, delivered,
                   combo_index, handler, notice, touched, last_return>>

\* speak: the frames are read and decoded and sd.play(audio,
\* samplerate=sample_rate, blocking=True) is called (lines 138-141): it
\* returns when the audio has been played, or the device refuses it
Play(p) ==
    /\ pc[p] = "sp_play"
    /\ LET wav_file    == Val(recv[p].body)
           sample_rate == wav_file.framerate
           audio_data  == readframes(wav_file, getnframes(wav_file))
           audio       == frombuffer(audio_data)
           args        == Some([samples |-> audio, samplerate |-> sample_rate])
       IN  \E ok \in BOOLEAN :
             IF ok
               THEN /\ played' = [played EXCEPT ![p] =
                          [calls |-> @.calls + 1, completed |-> @.completed + 1,
                           audio |-> args]]
                    /\ Goto(p, "done")
                    /\ UNCHANGED exc
               ELSE /\ played' = [played EXCEPT ![p] =
                          [calls |-> @.calls + 1, completed |-> @.completed,
                           audio |-> args]]
                    /\ Raise(p, Exception("PortAudioError", "Error opening OutputStream"))
    /\ UNCHANGED <<env, now, cache, threads, op, voice, entry, fetched, ret,
                   sent, recv, calls, envReads, delivered, combo_index,
                   handler, notice, touched, last_return>>

\* ---------------------------------------------------------------- the form
GuiThread == 1          \* the thread of app.exec_(), which runs the slots

\* Interface.initUI: combo_box.addItems([...]) (line 161); the first item
\* added to an empty QComboBox becomes the current one (index 0).
combo_items == <<"Natalya", "Aleksandra", "Boris", "Marfa", "Taras", "Sergey">>

\* Interface.onSpeak: self.combo_box.currentText() (line 176)
currentText == combo_items[combo_index + 1]

\* The event loop is free to deliver a user action: no slot is running
\* and no modal message box is open.
EventLoopFree == handler[GuiThread] \in {"none", "returned"} /\ pc[GuiThread] \in {"idle", "done"}

\* The user picks an entry of the dropdown.
SelectVoice ==
    /\ EventLoopFree
    /\ \E i \in 0..(Len(combo_items) - 1) : i # combo_index /\ combo_index' = i
    /\ touched' = TRUE
    /\ UNCHANGED <<env, now, cache, threads, locals, calls, envReads, delivered,
                   handler, notice, last_return>>

OnSpeakInWorkerThread(p) ==
    /\ p = GuiThread
    /\ calls < MaxCalls
    /\ \E q \in Threads :
         /\ pc[q] \in {"idle", "done"}
         /\ calls' = calls + 1
         /\ pc' = [pc EXCEPT ![q] = "sp_validate"]
         /\ op' = [op EXCEPT ![q] = "speak"]
         /\ voice' = [voice EXCEPT ![q] = currentText]
         /\ entry' = [entry EXCEPT ![q] = NoEntry]
         /\ fetched' = [fetched EXCEPT ![q] = None]
         /\ ret' = [ret EXCEPT ![q] = None]
         /\ exc' = [exc EXCEPT ![q] = None]
         /\ sent' = [sent EXCEPT ![q] = NoSent]
         /\ recv' = [recv EXCEPT ![q] = NoRecv]
         /\ played' = [played EXCEPT ![q] = NoPlay]
         /\ handler' = [handler EXCEPT ![q] = "running"]
    /\ UNCHANGED <<env, now, cache, threads, envReads, delivered, combo_index,
                   notice, touched, last_return>>

\* The trigger: the clicked signal runs Interface.onSpeak in the GUI thread,
\* which reads the form and calls speak(text, voice) (lines 174-178).
OnSpeak(p) ==
    /\ p = GuiThread
    /\ Enter(p, "speak", currentText, "sp_validate")
    /\ handler' = [handler EXCEPT ![p] = "running"]

\* Interface.onSpeak: speak returned, the slot returns (line 178).
OnSpeakReturn(p) ==
    /\ handler[p] = "running"
    /\ pc[p] = "done"
    /\ exc[p] = None
    /\ handler' = [handler EXCEPT ![p] = "returned"]
    /\ UNCHANGED <<env, now, cache, threads, locals, calls, envReads, delivered,
                   combo_index, notice, touched, last_return>>

\* str(e) of the exceptions of the model is their message.
str(e) == Val(e).msg

OnSpeakExceptValueErrorOnly(p) ==
    /\ handler[p] = "running"
    /\ pc[p] = "done"
    /\ exc[p] # None
    /\ IF Val(exc[p]).type = "ValueError"
         THEN /\ notice' = Some("An error occurred: " \o str(exc[p]))
              /\ handler' = [handler EXCEPT ![p] = "notice"]
         ELSE /\ handler' = [handler EXCEPT ![p] = "crashed"]
              /\ UNCHANGED notice
    /\ UNCHANGED <<env, now, cache, threads, locals, calls, envReads, delivered,
                   combo_index, touched, last_return>>

\* Interface.onSpeak: except Exception as e: QMessageBox.critical(self,
\* title, f'<An error occurred>: {str(e)}') opens a modal box (lines 179-180).
OnSpeakExcept(p) ==
    /\ handler[p] = "running"
    /\ pc[p] = "done"
    /\ exc[p] # None
    /\ notice' = Some("An error occurred: " \o str(exc[p]))
    /\ handler' = [handler EXCEPT ![p] = "notice"]
    /\ UNCHANGED <<env, now, cache, threads, locals, calls, envReads, delivered,
                   combo_index, touched, last_return>>

\* The user closes the message box; QMessageBox.critical and the slot return.
CloseNotice(p) ==
    /\ handler[p] = "notice"
    /\ handler' = [handler EXCEPT ![p] = "returned"]
    /\ notice' = None
    /\ UNCHANGED <<env, now, cache, threads, locals, calls, envReads, delivered,
                   combo_index, touched, last_return>>

Next ==
    \/ Tick
    \/ \E p \in threads : CallGetToken(p)
    \/ \E p \in threads : CallSpeak(p)
    \/ \E p \in threads : SpeakValidate(p)
    \/ \E p \in threads : GetTokenCheck(p)
    \/ \E p \in threads : GetAuthdata(p)
    \/ \E p \in threads : TokenPost(p)
    \/ \E p \in threads : TokenResponse(p)
    \/ \E p \in threads : TokenTransportFailure(p)
    \/ \E p \in threads : StoreToken(p)
    \/ \E p \in threads : StoreExpires(p)
    \/ \E p \in threads : GetTokenReturn(p)
    \/ \E p \in threads : SynthPost(p)
    \/ \E p \in threads : SynthResponse(p)
    \/ \E p \in threads : SynthTransportFailure(p)
    \/ \E p \in threads : Play(p)

Spec == Init /\ [][Next]_vars

\* The program as it is run (lines 183-187): the only caller of speak() is
\* the slot of the form, in the GUI thread.
MaxClicks == 2          \* trigger actions in one process lifetime

NextForm ==
    \/ Tick
    \/ SelectVoice
    \/ \E p \in threads : calls < MaxClicks /\ OnSpeak(p)
    \/ \E p \in threads : SpeakValidate(p)
    \/ \E p \in threads : GetTokenCheck(p)
    \/ \E p \in threads : GetAuthdata(p)
    \/ \E p \in threads : TokenPost(p)
    \/ \E p \in threads : TokenResponse(p)
    \/ \E p \in threads : TokenTransportFailure(p)
    \/ \E p \in threads : StoreToken(p)
    \/ \E p \in threads : StoreExpires(p)
    \/ \E p \in threads : GetTokenReturn(p)
    \/ \E p \in threads : SynthPost(p)
    \/ \E p \in threads : SynthResponse(p)
    \/ \E p \in threads : SynthTransportFailure(p)
    \/ \E p \in threads : Play(p)
    \/ \E p \in threads : OnSpeakReturn(p)
    \/ \E p \in threads : OnSpeakExcept(p)
    \/ \E p \in threads : CloseNotice(p)

SpecForm == Init /\ [][NextForm]_vars

\* Two callers of Token.get_token() whose calls may overlap: the statements
\* of the two calls interleave; the class attributes are shared.
InitOverlap ==
    /\ env \in {Some(k) : k \in ApiKeys}
    /\ now = 0
    /\ _authdata = None
    /\ _token = None
    /\ _expires_in = None
    /\ threads = Threads
    /\ pc = [p \in Threads |-> "idle"]
    /\ op = [p \in Threads |-> "none"]
    /\ voice = [p \in Threads |-> ""]
    /\ entry = [p \in Threads |-> NoEntry]
    /\ fetched = [p \in Threads |-> None]
    /\ ret = [p \in Threads |-> None]
    /\ exc = [p \in Threads |-> None]
    /\ sent = [p \in Threads |-> NoSent]
    /\ recv = [p \in Threads |-> NoRecv]
    /\ played = [p \in Threads |-> NoPlay]
    /\ calls = 0
    /\ envReads = 0
    /\ delivered = {}
    /\ combo_index = 0
    /\ handler = [p \in Threads |-> "none"]
    /\ notice = None
    /\ touched = FALSE
    /\ last_return = [value |-> None, time |-> 0]

MaxOverlapCalls == 2    \* get_token() calls of the two callers together

NextOverlap ==
    \/ Tick
    \/ \E p \in threads : calls < MaxOverlapCalls /\ CallGetToken(p)
    \/ \E p \in threads : GetTokenCheck(p)
    \/ \E p \in threads : GetAuthdata(p)
    \/ \E p \in threads : TokenPost(p)
    \/ \E p \in threads : TokenResponse(p)
    \/ \E p \in threads : TokenTransportFailure(p)
    \/ \E p \in threads : StoreToken(p)
    \/ \E p \in threads : StoreExpires(p)
    \/ \E p \in threads : GetTokenReturn(p)

SpecOverlap == InitOverlap /\ [][NextOverlap]_vars

TypeOK ==
    /\ env \in EnvValues
    /\ now \in 0..MaxTime
    /\ _authdata \in EnvValues
    /\ _token \in {None} \cup {Some(t) : t \in TokenVals}
    /\ (_expires_in = None) \/ Val(_expires_in) \in Nat
    /\ calls \in 0..MaxCalls
    /\ envReads \in 0..MaxCalls

\* ------------------------------------------------------------------ claims
Done(p)         == pc[p] = "done"
Checked(p)      == pc[p] \notin {"idle", "sp_validate", "gt_check"} /\ entry[p] # NoEntry
Returned(p)     == ret[p] # None
TokenFailure    == Exception("Exception", "Failed to obtain token")
SynthFailure    == Exception("Exception", "Failed to synthesize speech")
SynthBase       == "https://smartspeech.sber.ru/rest/v1/text:synthesize?"

\* The cache held a token at the check, and the contract calls it stale:
\* its expiry is no later than the time of the check plus the margin.
StaleAtEntry(p) ==
    /\ entry[p].token # None
    /\ Val(entry[p].expires) <= entry[p].time + Margin

\* The cache held a token at the check that expires more than the margin
\* after the time of the check.
FreshAtEntry(p) ==
    /\ entry[p].token # None
    /\ Val(entry[p].expires) > entry[p].time + Margin

\* C1: a get_token() that finds a cached token expiring within 2000 ms of
\* now, or already expired, triggers exactly one refresh request and returns
\* the token that refresh obtained, never the cached one.
C1_StaleTokenIsRefreshed ==
    \A p \in Threads :
      StaleAtEntry(p) =>
        /\ entry[p].refresh
        /\ sent[p].tokenPosts <= 1
        /\ Returned(p) =>
             /\ sent[p].tokenPosts = 1
             /\ fetched[p] # None
             /\ ret[p] = Some(Val(fetched[p]).access_token)

\* C2: a get_token() that finds a cached token expiring more than 2000 ms
\* after now issues no token request and returns that cached token,
\* whatever calls came before.
C2_FreshTokenIsServedFromCache ==
    \A p \in Threads :
      FreshAtEntry(p) =>
        /\ ~entry[p].refresh
        /\ sent[p].tokenPosts = 0
        /\ recv[p].token = None
        /\ pc[p] # "gt_return" => ret[p] = entry[p].token

C2_Witness ==
    \E p \in Threads :
      /\ FreshAtEntry(p)
      /\ op[p] = "get_token"
      /\ Done(p)
      /\ ret[p] = entry[p].token
      /\ calls >= 2

\* The expiry of the token get_token returned: the refreshed one's when the
\* call refreshed, the cached one's otherwise.
ReturnedExpiry(p) ==
    IF fetched[p] # None THEN Val(fetched[p]).expires_at ELSE Val(entry[p].expires)

\* C3: every token get_token() returns has an expiry that, minus the
\* 2000 ms margin, is strictly later than the time of the call.
C3_ReturnedTokenIsNotStale ==
    \A p \in Threads :
      Returned(p) => ReturnedExpiry(p) - Margin > entry[p].time

\* C4: when the token endpoint answers a status other than 200 (401 among
\* them), the call fails with the token failure, returns no token, and the
\* cached token and expiry are what the call found, empty included.
C4_FailedRefreshKeepsCache ==
    \A p \in Threads :
      (recv[p].token # None /\ Val(recv[p].token) # HTTP_OK) =>
        /\ Done(p)
        /\ exc[p] = TokenFailure
        /\ ~Returned(p)
        /\ _token = entry[p].token
        /\ _expires_in = entry[p].expires

C4_Witness ==
    \E p \in Threads :
      /\ recv[p].token = Some(401)
      /\ exc[p] = TokenFailure
      /\ entry[p].token # None
      /\ _token = entry[p].token
      /\ _expires_in = entry[p].expires

\* C5: speak() with a voice outside the six names fails with the invalid
\* voice error and sends nothing: no token request (empty or stale cache or
\* not), no synthesis request, no playback, no read of the environment.
C5_InvalidVoiceNoNetwork ==
    \A p \in Threads :
      (op[p] = "speak" /\ voice[p] \notin DOMAIN valid_voices /\ pc[p] # "sp_validate") =>
        /\ Done(p)
        /\ exc[p] # None
        /\ Val(exc[p]).type = "ValueError"
        /\ sent[p] = NoSent
        /\ recv[p] = NoRecv
        /\ played[p] = NoPlay
        /\ entry[p] = NoEntry

C5_Witness ==
    \E p \in Threads :
      /\ op[p] = "speak"
      /\ voice[p] = "Ivan"
      /\ Done(p)
      /\ _token = None
      /\ sent[p].tokenPosts = 0

\* C6: when the synthesis endpoint answers a status other than 200 (500
\* among them), speak() fails with the synthesis failure and sd.play is not
\* called in that invocation.
C6_SynthFailureNoPlayback ==
    \A p \in Threads :
      (recv[p].synth # None /\ Val(recv[p].synth) # HTTP_OK) =>
        /\ Done(p)
        /\ exc[p] = SynthFailure
        /\ played[p] = NoPlay

C6_Witness ==
    \E p \in Threads :
      /\ recv[p].synth = Some(500)
      /\ exc[p] = SynthFailure
      /\ played[p].calls = 0

\* A refresh was attempted by p's call: the headers of the token request
\* have been built.
RefreshAttempted(p) == sent[p].auth # None

\* C7: when SALUTESPEECH_API_KEY is absent, an attempted refresh fails with
\* a configuration error and the absence is never sent to the token
\* endpoint as a credential.
C7_AbsentKeyIsConfigurationError ==
    \A p \in Threads :
      (env = None /\ RefreshAttempted(p)) =>
        /\ sent[p].tokenPosts = 0
        /\ Done(p)
        /\ exc[p] # None
        /\ Val(exc[p]).type = "ConfigurationError"

\* C8: over any sequence of refresh attempts the environment variable is
\* read exactly once, at first use, and the credential never changes.
C8_EnvironmentReadOnce ==
    /\ envReads <= 1
    /\ (\E p \in Threads : RefreshAttempted(p)) => envReads = 1
    /\ _authdata # None => _authdata = env

\* The provider code the interface table documents for a voice name.
DocumentedCode(v) ==
    CASE v = "Natalya"    -> "Nec"
      [] v = "Aleksandra" -> "Ost"
      [] v = "Boris"      -> "Bys"
      [] v = "Marfa"      -> "May"
      [] v = "Taras"      -> "Tur"
      [] v = "Sergey"     -> "Pon"

\* C9: for each of the six voice names the synthesis request targets
\* voice=<code>_24000 with <code> the documented provider code of the name.
C9_VoiceCodeInQuery ==
    \A p \in Threads :
      sent[p].url # None =>
        /\ voice[p] \in {"Natalya", "Aleksandra", "Boris", "Marfa", "Taras", "Sergey"}
        /\ Val(sent[p].url) = SynthBase \o "voice=" \o DocumentedCode(voice[p]) \o "_24000"

C9_Witness ==
    \E p \in Threads :
      /\ voice[p] = "Marfa"
      /\ sent[p].url = Some(SynthBase \o "voice=May_24000")
      /\ sent[p].synthPosts = 1

\* C10: an invocation of speak() sends at most one token request and at most
\* one synthesis request, calls sd.play at most once, and ends either with
\* the audio played and no error, or with one error and nothing played.
C10_OneTerminalOutcome ==
    \A p \in Threads :
      op[p] = "speak" =>
        /\ sent[p].tokenPosts <= 1
        /\ sent[p].synthPosts <= 1
        /\ played[p].calls <= 1
        /\ played[p].completed = 1 => (Done(p) /\ exc[p] = None)
        /\ exc[p] # None => (Done(p) /\ played[p].completed = 0)
        /\ Done(p) => (exc[p] = None <=> played[p].completed = 1)

C10_Witness ==
    \E p \in Threads :
      /\ op[p] = "speak"
      /\ Done(p)
      /\ exc[p] = None
      /\ played[p].completed = 1
      /\ sent[p].tokenPosts = 1
      /\ sent[p].synthPosts = 1

\* No thread is between the two stores of get_token's tuple assignment.
NoStoreInProgress == \A p \in Threads : pc[p] # "gt_store_expires"

\* C11: when get_token() calls overlap, the last writer may win, but no
\* call is handed a stale token: the value a call returns was delivered by
\* the endpoint with an expiry that the check of line 52 itself would not
\* reject at the time of that call (it is not expired by more than the
\* margin).  The contract's stricter staleness (C3) implies this one.
C11_NoStaleTokenServed ==
    \A p \in Threads :
      Returned(p) =>
        \E d \in delivered :
          /\ d.access_token = Val(ret[p])
          /\ ~NeedsRefresh(ret[p], Some(d.expires_at), entry[p].time)

\* C12: the cached (token, expiry) pair is empty or is the pair of one
\* single token-endpoint response, in every interleaving of overlapping
\* get_token() calls (observed when no call is inside the assignment of
\* line 54).
C12_CachePairFromOneResponse ==
    NoStoreInProgress =>
      \/ _token = None /\ _expires_in = None
      \/ /\ _token # None
         /\ _expires_in # None
         /\ [access_token |-> Val(_token), expires_at |-> Val(_expires_in)] \in delivered

\* The HTTP status a caller can read from an exception: the exceptions of
\* the code have a type and a message, no status attribute.
StatusOf(e) == IF "status" \in DOMAIN Val(e) THEN Some(Val(e).status) ELSE None

FailedAtToken(p) == recv[p].token # None /\ Val(recv[p].token) # HTTP_OK
FailedAtSynth(p) == recv[p].synth # None /\ Val(recv[p].synth) # HTTP_OK

\* C13 as stated: a non-200 response of either endpoint produces an error
\* that carries the HTTP status of that response.
C13_ErrorCarriesStatus ==
    \A p \in Threads :
      /\ FailedAtToken(p) => (exc[p] # None /\ StatusOf(exc[p]) = recv[p].token)
      /\ FailedAtSynth(p) => (exc[p] # None /\ StatusOf(exc[p]) = recv[p].synth)

\* C13 amended: a non-200 response produces the one fixed error of its
\* endpoint, whatever the status, with no status in it; the error of the
\* token endpoint differs from the error of the synthesis endpoint.
C13_ErrorNamesEndpointOnly ==
    /\ TokenFailure # SynthFailure
    /\ \A p \in Threads :
         /\ FailedAtToken(p) => (exc[p] = TokenFailure /\ StatusOf(exc[p]) = None)
         /\ FailedAtSynth(p) => (exc[p] = SynthFailure /\ StatusOf(exc[p]) = None)

C13_Witness ==
    \E p \in Threads :
      /\ recv[p].token = Some(500)
      /\ exc[p] = TokenFailure
      /\ calls >= 2

\* C14: when the synthesis endpoint answers 200 with a 16-bit PCM container
\* of N samples at rate R, sd.play is called exactly once, with exactly those
\* N samples in order and rate R, and speak() returns only after that
\* playback has completed.
C14_PlaysTheSamplesOfTheBody ==
    \A p \in Threads : \A a \in Audios :
      (recv[p].synth = Some(HTTP_OK)
         /\ recv[p].body = Some(WavBody(a.samples, a.samplerate))) =>
        /\ played[p].calls <= 1
        /\ Done(p) =>
             /\ played[p].calls = 1
             /\ played[p].audio = Some(a)
             /\ exc[p] = None => played[p].completed = 1
        /\ ~Done(p) => (pc[p] = "sp_play" /\ played[p].calls = 0)

C14_Witness ==
    \E p \in Threads :
      /\ recv[p].synth = Some(HTTP_OK)
      /\ Done(p)
      /\ exc[p] = None
      /\ played[p] = [calls |-> 1, completed |-> 1,
                      audio |-> Some([samples |-> <<-32768, 258, 32767>>,
                                      samplerate |-> 24000])]

\* C15: the dropdown starts on "Aleksandra", so a trigger action before the
\* user has touched the dropdown requests voice code Ost.
C15_DefaultVoiceIsAleksandra ==
    ~touched =>
      \A p \in Threads :
        (handler[p] # "none" /\ sent[p].url # None) =>
          /\ voice[p] = "Aleksandra"
          /\ Val(sent[p].url) = SynthBase \o "voice=Ost_24000"

\* C16: whatever exception speak() raises, onSpeak catches it, shows its
\* message in a modal box and returns; the process goes on (no exception
\* leaves the slot) and a later trigger action is handled.
C16_HandlerCatchesEveryError ==
    \A p \in Threads :
      /\ handler[p] # "crashed"
      /\ handler[p] = "notice" =>
           /\ Done(p)
           /\ exc[p] # None
           /\ notice = Some("An error occurred: " \o Val(exc[p]).msg)
      /\ (handler[p] = "returned" /\ p = GuiThread /\ calls < MaxClicks) =>
           ENABLED (calls < MaxClicks /\ OnSpeak(p))

C16_Witness ==
    \E p \in Threads :
      /\ calls = 2
      /\ handler[p] = "notice"
      /\ last_return.value = None
      /\ Val(exc[p]).type = "ConnectionError"
      /\ notice = Some("An error occurred: token endpoint unreachable")

\* C17: within one speak() the synthesis request is sent only for a valid
\* voice and after get_token() has returned, with exactly the returned value
\* as bearer token; playback needs a 200 synthesis response; when
\* get_token() fails there is no synthesis request and no playback.
C17_StepsInOrder ==
    \A p \in Threads :
      op[p] = "speak" =>
        /\ entry[p] # NoEntry => voice[p] \in DOMAIN valid_voices
        /\ sent[p].synthPosts > 0 =>
             /\ Returned(p)
             /\ sent[p].bearer = Some("Bearer " \o Val(ret[p]))
        /\ played[p].calls > 0 =>
             /\ sent[p].synthPosts = 1
             /\ recv[p].synth = Some(HTTP_OK)
        /\ (Done(p) /\ ~Returned(p)) =>
             /\ exc[p] # None
             /\ sent[p].synthPosts = 0
             /\ sent[p].bearer = None
             /\ played[p] = NoPlay

C17_Witness ==
    \E p \in Threads :
      /\ op[p] = "speak"
      /\ Done(p)
      /\ entry[p].token = Some("t1")
      /\ entry[p].refresh
      /\ sent[p].bearer = Some("Bearer t2")
      /\ played[p].completed = 1

\* C18: a get_token() on an empty cache makes exactly one token request,
\* has stored the value and the expiry of that response when it returns, and
\* returns that value; a get_token() that follows with no time elapsed and
\* the token not stale sends no token request and returns the same value.
C18_EmptyCacheThenHit ==
    \A p \in Threads :
      /\ (entry[p] # NoEntry /\ entry[p].token = None /\ Returned(p)) =>
           /\ sent[p].tokenPosts = 1
           /\ fetched[p] # None
           /\ ret[p] = Some(Val(fetched[p]).access_token)
           /\ _token = ret[p]
           /\ _expires_in = Some(Val(fetched[p]).expires_at)
      /\ (entry[p] # NoEntry /\ ~Returned(p) /\ last_return.value # None
            /\ last_return.time = entry[p].time /\ FreshAtEntry(p)) =>
           /\ pc[p] = "gt_return"
           /\ sent[p].tokenPosts = 0
           /\ _token = last_return.value

C18_Witness ==
    \E p \in Threads :
      /\ calls = 2
      /\ op[p] = "get_token"
      /\ Done(p)
      /\ sent[p].tokenPosts = 0
      /\ last_return.time = entry[p].time
      /\ ret[p] = Some("t2")
      /\ now = 0

\* C19: only the stores of a get_token() that refreshed change the cached
\* token or expiry: the steps of a speak() that does not refresh (invalid
\* voice, a non-200 synthesis response, 401 included, playback) leave both as
\* they were, so the next call finds the same token.
C19_OnlyRefreshWritesCache ==
    [][ (_token' # _token \/ _expires_in' # _expires_in) =>
          \E p \in Threads :
            /\ pc[p] \in {"gt_store_token", "gt_store_expires"}
            /\ entry[p].refresh
            /\ recv[p].token = Some(HTTP_OK) ]_vars

C19_Witness ==
    \E p \in Threads :
      /\ op[p] = "speak"
      /\ Done(p)
      /\ recv[p].synth = Some(401)
      /\ ~entry[p].refresh
      /\ _token = entry[p].token
      /\ _expires_in = entry[p].expires
      /\ _token # None

\* A thread is inside an invocation: in speak()/get_token() or in the slot.
InProgress(p) == pc[p] \notin {"idle", "done"} \/ handler[p] \in {"running", "notice"}

\* C20: invocations started from the form never overlap: at most one is in
\* progress, it runs inside the slot, and the slot goes on only when speak()
\* has finished with playback or an error.
C20_FormCallsNeverOverlap ==
    /\ Cardinality({p \in Threads : InProgress(p)}) <= 1
    /\ \A p \in Threads :
         /\ pc[p] \notin {"idle", "done"} => (p = GuiThread /\ handler[p] = "running")
         /\ handler[p] \in {"notice", "returned"} =>
              /\ Done(p)
              /\ exc[p] # None \/ played[p].completed = 1

C20_Witness ==
    \E p \in Threads :
      /\ calls = 2
      /\ handler[p] = "running"
      /\ pc[p] = "rq_wait"
      /\ now > last_return.time
      /\ last_return.value # None
====
